---- MODULE Spec2Model ----
(***************************************************************************)
(* Model of the StructuredData example program.                            *)
(*                                                                         *)
(* src/src/structured_data.rs declares the data types (Data,               *)
(* FixedAttributes, KeyAndWeight, MutableAttributes, Version) and one      *)
(* function, the Debug formatter of KeyAndWeight.  src/src/main.rs holds   *)
(* the only executable code: main builds one Data value, prints it,        *)
(* pushes Version 1 onto its `versions` vector and prints it again.        *)
(*                                                                         *)
(* The source has no signature evaluation, no index check, no retention    *)
(* or archiving, no expiry check and no error type; none is modelled.      *)
(***************************************************************************)
EXTENDS Integers, Sequences, FiniteSets

\* Number of distinct public keys sign::gen_keypair() may return.
NumKeys == 6

\* Latest clock reading (in days) time::now() may return.
MaxNow == 5

VARIABLES
    pc,                   \* the line of main about to execute, or "done"
    user_session_packet,  \* main's local `let mut user_session_packet`
    stdout                \* what println! has written, one entry per call

vars == <<pc, user_session_packet, stdout>>

(***************************************************************************)
(* The outcomes of the two nondeterministic calls in main.                 *)
(***************************************************************************)

\* sign::gen_keypair().0: a fresh public key.
PublicKeys == 1..NumKeys

\* time::now(): the clock reading, counted in days.
Clock == 0..MaxNow

(***************************************************************************)
(* The struct types of structured_data.rs.                                 *)
(***************************************************************************)

U8 == 0..255

IsU64(n) == n \in Nat

IsBytes(s) == /\ s \in Seq(U8)

\* NameType::new([0u8; 64]): 64 zero bytes.
ZeroName == [i \in 1..64 |-> 0]

IsVersion(v) ==
    /\ DOMAIN v = {"index", "data"}
    /\ IsU64(v.index)
    /\ IsBytes(v.data)

IsKeyAndWeight(k) ==
    /\ DOMAIN k = {"key", "weight"}
    /\ k.key \in PublicKeys
    /\ IsU64(k.weight)

IsFixedAttributes(f) ==
    /\ DOMAIN f = {"type_tag", "id", "max_versions", "min_retained_count", "data"}
    /\ IsU64(f.type_tag)
    /\ IsBytes(f.id) /\ Len(f.id) = 64
    /\ IsU64(f.max_versions)
    /\ f.min_retained_count \in U8
    /\ IsBytes(f.data)

IsMutableAttributes(m) ==
    /\ DOMAIN m = {"owner_keys", "min_weight_for_consensus", "expiry_date", "data"}
    /\ \A i \in DOMAIN m.owner_keys : IsKeyAndWeight(m.owner_keys[i])
    /\ IsU64(m.min_weight_for_consensus)
    /\ m.expiry_date \in Int
    /\ IsBytes(m.data)

IsData(d) ==
    /\ DOMAIN d = {"fixed_attributes", "mutable_attributes", "versions"}
    /\ IsFixedAttributes(d.fixed_attributes)
    /\ IsMutableAttributes(d.mutable_attributes)
    /\ \A i \in DOMAIN d.versions : IsVersion(d.versions[i])

(***************************************************************************)
(* main, lines 143-168: the struct literal.                                *)
(***************************************************************************)

\* 'A','B','C' / 'D','E','F' / 'v','0' / 'v','1' as u8.
InitialFixedAttributes ==
    [ type_tag           |-> 1,
      id                 |-> ZeroName,
      max_versions       |-> 10,
      min_retained_count |-> 5,
      data               |-> <<65, 66, 67>> ]

InitialMutableAttributes(key, now) ==
    [ owner_keys               |-> << [key |-> key, weight |-> 1] >>,
      min_weight_for_consensus |-> 0,
      expiry_date              |-> now + 36524,
      data                     |-> <<68, 69, 70>> ]

InitialVersion == [index |-> 0, data |-> <<118, 48>>]

InitialData(key, now) ==
    [ fixed_attributes   |-> InitialFixedAttributes,
      mutable_attributes |-> InitialMutableAttributes(key, now),
      versions           |-> <<InitialVersion>> ]

(***************************************************************************)
(* Debug formatting, as println!("{:?}") renders a Data.                   *)
(***************************************************************************)

\* impl fmt::Debug for KeyAndWeight: "key: {:?}, weight: {}".
FmtKeyAndWeight(k) == <<"key: ", k.key, ", weight: ", k.weight>>

\* #[derive(Debug)]: the struct's name, then each field by name.
FmtVersion(v) == <<"Version", "index", v.index, "data", v.data>>

FmtFixedAttributes(f) ==
    <<"FixedAttributes", "type_tag", f.type_tag, "id", f.id,
      "max_versions", f.max_versions,
      "min_retained_count", f.min_retained_count, "data", f.data>>

FmtMutableAttributes(m) ==
    <<"MutableAttributes",
      "owner_keys", [i \in DOMAIN m.owner_keys |-> FmtKeyAndWeight(m.owner_keys[i])],
      "min_weight_for_consensus", m.min_weight_for_consensus,
      "expiry_date", m.expiry_date, "data", m.data>>

FmtData(d) ==
    <<"user_session_packet:", "Data",
      "fixed_attributes", FmtFixedAttributes(d.fixed_attributes),
      "mutable_attributes", FmtMutableAttributes(d.mutable_attributes),
      "versions", [i \in DOMAIN d.versions |-> FmtVersion(d.versions[i])]>>

(***************************************************************************)
(* main, line 171: the version pushed.                                     *)
(***************************************************************************)

\* A mis-numbered push: the index skips one.
NewVersionSkipped == [index |-> 2, data |-> <<118, 49>>]

NewVersion == [index |-> 1, data |-> <<118, 49>>]

(***************************************************************************)
(* The program.                                                            *)
(***************************************************************************)

Init ==
    /\ pc = "line169"
    /\ \E key \in PublicKeys, now \in Clock :
          user_session_packet = InitialData(key, now)
    /\ stdout = <<>>

\* Line 169: println!("user_session_packet:\n{:?}", user_session_packet).
PrintInitial ==
    /\ pc = "line169"
    /\ stdout' = Append(stdout, FmtData(user_session_packet))
    /\ pc' = "line171"
    /\ UNCHANGED user_session_packet

\* An assignment where the push should be: the ledger is replaced.
PushVersionReplacing ==
    /\ pc = "line171"
    /\ user_session_packet' =
          [user_session_packet EXCEPT !.versions = <<NewVersion>>]
    /\ pc' = "line172"
    /\ UNCHANGED stdout

\* A push that also spends one of the record's version slots.
PushVersionSpendingSlot ==
    /\ pc = "line171"
    /\ user_session_packet' =
          [user_session_packet EXCEPT
             !.versions = Append(@, NewVersion),
             !.fixed_attributes.max_versions = @ - 1]
    /\ pc' = "line172"
    /\ UNCHANGED stdout

\* Line 171: user_session_packet.versions.push(Version{ index: 1, .. }).
\* Vec::push is unconditional: nothing is compared, nothing can be refused.
PushVersion ==
    /\ pc = "line171"
    /\ user_session_packet' =
          [user_session_packet EXCEPT !.versions = Append(@, NewVersion)]
    /\ pc' = "line172"
    /\ UNCHANGED stdout

\* Line 172: println!("user_session_packet:\n{:?}", user_session_packet).
PrintFinal ==
    /\ pc = "line172"
    /\ stdout' = Append(stdout, FmtData(user_session_packet))
    /\ pc' = "done"
    /\ UNCHANGED user_session_packet

Next ==
    \/ PrintInitial
    \/ PushVersion
    \/ PrintFinal

Spec == Init /\ [][Next]_vars

(***************************************************************************)
(* Sanity: every reachable record inhabits the declared struct types.      *)
(***************************************************************************)

TypeOK ==
    /\ pc \in {"line169", "line171", "line172", "done"}
    /\ IsData(user_session_packet)
    /\ Len(stdout) <= 2

(***************************************************************************)
(* Claims.                                                                 *)
(***************************************************************************)

C8_IdentityBlockNeverChanges ==
    [][user_session_packet'.fixed_attributes
          = user_session_packet.fixed_attributes]_vars

\* C8 witness: the record has been mutated (a version appended) and both
\* snapshots have been printed, the second differing from the first.
C8_Witness ==
    /\ pc = "done"
    /\ Len(stdout) = 2
    /\ stdout[1][4] = stdout[2][4]
    /\ stdout[1][8] /= stdout[2][8]

====
